---- MODULE Spec2Model ----
(***************************************************************************)
(* nmem extractor (tools/extract.py): one short-lived process per hook     *)
(* event, all cross-invocation state in the SQLite store nmem.db.          *)
(*                                                                         *)
(* State: the committed contents of the four tables (sessions, prompts,    *)
(* observations, _cursor), the transcript file of every session (written   *)
(* by an external process), the wall clock, a record of the last step (a   *)
(* history variable the properties read), the scope of inputs the          *)
(* behaviour draws from, and the invocations that are running at the same  *)
(* time (none where invocations follow one another).                       *)
(*                                                                         *)
(* Abstractions: the timestamp columns of prompts and observations and the *)
(* summary/metadata columns are left out (no statement of extract.py reads *)
(* them); a string that is only truncated, stripped and compared is a Text *)
(* record (leading blanks, a named character stream, the number of its     *)
(* characters taken, trailing blanks); a string whose characters are       *)
(* inspected (tool names, obs_type) is a sequence of one-character strings.*)
(***************************************************************************)
EXTENDS Naturals, Sequences, FiniteSets, TLC

VARIABLES db, transcript, now, last, scope, conns

vars == <<db, transcript, now, last, scope, conns>>

(***************************************************************************)
(* Bounds of the model.                                                    *)
(***************************************************************************)
MaxLines == 2
MaxPrompts == 2
MaxObs == 3
MaxTime == 2
MaxReuse == 2
MaxReuseLines == 3

SessionIds == {"s1", "s2"}

(***************************************************************************)
(* Nullable columns: NULL is the empty tuple, a value v is <<v>>.          *)
(***************************************************************************)
Null == <<>>
Some(v) == <<v>>
Val(x) == x[1]

Min(a, b) == IF a <= b THEN a ELSE b

\* The element of a one-element set.  The({F(x) : x \in {e}}) is F(e) with e
\* evaluated once.
The(S) == CHOOSE r \in S : TRUE

(***************************************************************************)
(* Texts.  [pre, stem, len, post] is pre blanks, the first len characters  *)
(* of the character stream named stem (a sequence of characters: the text  *)
(* itself when it is short, the name of a longer one otherwise; its first  *)
(* and last characters are no blanks), then post blanks.                   *)
(***************************************************************************)
EmptyText == [pre |-> 0, stem |-> <<>>, len |-> 0, post |-> 0]
Txt(stem, len) == [pre |-> 0, stem |-> stem, len |-> len, post |-> 0]
Padded(stem, len) == [pre |-> 1, stem |-> stem, len |-> len, post |-> 1]

TextLen(t) == t.pre + t.len + t.post

\* str.strip()
Strip(t) ==
    IF t.len = 0 THEN EmptyText ELSE [t EXCEPT !.pre = 0, !.post = 0]

\* Variant: nothing is cut
TruncateNone(t, n) == t

\* s[:n]
Truncate(t, n) ==
    IF TextLen(t) <= n THEN t
    ELSE IF t.pre >= n THEN [pre |-> n, stem |-> <<>>, len |-> 0, post |-> 0]
    ELSE IF t.pre + t.len >= n
         THEN [pre |-> t.pre, stem |-> t.stem, len |-> n - t.pre, post |-> 0]
    ELSE [t EXCEPT !.post = n - t.pre - t.len]

AgentMaxLen == 2000
UserMaxLen == 500
CommandMaxLen == 500

(***************************************************************************)
(* Strings whose characters the code inspects.                             *)
(***************************************************************************)
sBash == <<"B", "a", "s", "h">>
sRead == <<"R", "e", "a", "d">>
sWrite == <<"W", "r", "i", "t", "e">>
sEdit == <<"E", "d", "i", "t">>
sGrep == <<"G", "r", "e", "p">>
sGlob == <<"G", "l", "o", "b">>
sTask == <<"T", "a", "s", "k">>
sWebFetch == <<"W", "e", "b", "F", "e", "t", "c", "h">>
sWebSearch == <<"W", "e", "b", "S", "e", "a", "r", "c", "h">>
sAskUserQuestion == <<"A", "s", "k", "U", "s", "e", "r", "Q", "u", "e", "s", "t", "i", "o", "n">>
tCommand == <<"c", "o", "m", "m", "a", "n", "d">>
tFileRead == <<"f", "i", "l", "e", "_", "r", "e", "a", "d">>
tFileWrite == <<"f", "i", "l", "e", "_", "w", "r", "i", "t", "e">>
tFileEdit == <<"f", "i", "l", "e", "_", "e", "d", "i", "t">>
tSearch == <<"s", "e", "a", "r", "c", "h">>
tTaskSpawn == <<"t", "a", "s", "k", "_", "s", "p", "a", "w", "n">>
tWebFetch == <<"w", "e", "b", "_", "f", "e", "t", "c", "h">>
tWebSearch == <<"w", "e", "b", "_", "s", "e", "a", "r", "c", "h">>
tCommandError == <<"c", "o", "m", "m", "a", "n", "d", "_", "e", "r", "r", "o", "r">>
tMcpCall == <<"m", "c", "p", "_", "c", "a", "l", "l">>
tToolPrefix == <<"t", "o", "o", "l", "_">>
tSessionPrefix == <<"s", "e", "s", "s", "i", "o", "n", "_">>

Upper == <<"A","B","C","D","E","F","G","H","I","J","K","L","M",
           "N","O","P","Q","R","S","T","U","V","W","X","Y","Z">>
Lower == <<"a","b","c","d","e","f","g","h","i","j","k","l","m",
           "n","o","p","q","r","s","t","u","v","w","x","y","z">>

\* str.lower(), character by character
LowerChar(c) ==
    IF \E k \in 1..Len(Upper) : Upper[k] = c
    THEN Lower[CHOOSE k \in 1..Len(Upper) : Upper[k] = c]
    ELSE c
\* Variant: no case folding
ToLowerIdentity(s) == s

ToLower(s) == [k \in 1..Len(s) |-> LowerChar(s[k])]

\* "__" in name
HasDunder(s) == \E k \in 1..Len(s) : k < Len(s) /\ s[k] = "_" /\ s[k + 1] = "_"

\* sub in s
Contains(s, sub) ==
    /\ Len(s) >= Len(sub)
    /\ \E k \in 1..(Len(s) - Len(sub) + 1) : SubSeq(s, k, k + Len(sub) - 1) = sub

\* The error markers the capture hook looks for in a Bash response (a
\* nullable string): "exit code" anywhere, "error" in the first 200 characters
ErrorWindow == 200
HasErrorMarker(tool_response) ==
    LET resp == IF tool_response = Null THEN <<>> ELSE ToLower(Val(tool_response))
    IN  \/ Contains(resp, <<"e", "x", "i", "t", " ", "c", "o", "d", "e">>)
        \/ Contains(SubSeq(resp, 1, Min(ErrorWindow, Len(resp))),
                    <<"e", "r", "r", "o", "r">>)

\* The text of a character string
TextOf(s) == IF Len(s) = 0 THEN EmptyText
             ELSE [pre |-> 0, stem |-> s, len |-> Len(s), post |-> 0]

(***************************************************************************)
(* Event classifier.  A tool_input is a function from some keys to         *)
(* nullable Texts (JSON null is Null); a Python str-or-None result is a    *)
(* nullable Text.                                                          *)
(***************************************************************************)
\* Variant: every tool takes the fallback branch
classify_tool_fallback(name) == tToolPrefix \o ToLower(name)

classify_tool(name) ==
    IF name = sBash THEN tCommand
    ELSE IF name = sRead THEN tFileRead
    ELSE IF name = sWrite THEN tFileWrite
    ELSE IF name = sEdit THEN tFileEdit
    ELSE IF name \in {sGrep, sGlob} THEN tSearch
    ELSE IF name = sTask THEN tTaskSpawn
    ELSE IF name = sWebFetch THEN tWebFetch
    ELSE IF name = sWebSearch THEN tWebSearch
    ELSE IF HasDunder(name) THEN tMcpCall
    ELSE tToolPrefix \o ToLower(name)

\* dict.get(key, default)
Get(inp, key, default) == IF key \in DOMAIN inp THEN inp[key] ELSE default

\* Python truthiness of a str-or-None
Truthy(v) == v # Null /\ TextLen(Val(v)) > 0

\* a or b
Or(a, b) == IF Truthy(a) THEN a ELSE b

\* Variant: the file_path of any tool's input
extract_file_path_any(name, tool_input) == Get(tool_input, "file_path", Null)

extract_file_path(name, tool_input) ==
    IF name \in {sRead, sWrite, sEdit} THEN Get(tool_input, "file_path", Null)
    ELSE IF name \in {sGrep, sGlob} THEN Get(tool_input, "path", Null)
    ELSE Null

\* The characters of a literal Text (one whose stem is the text itself)
Chars(t) ==
    [k \in 1..t.pre |-> " "] \o SubSeq(t.stem, 1, t.len) \o [k \in 1..t.post |-> " "]

\* str(v) inside an f-string: None prints as "None"
Fmt(v) == IF v = Null THEN <<"N", "o", "n", "e">> ELSE Chars(Val(v))

TaskMaxLen == 200

\* The result of a Python expression: a value, or an exception raised
Ret(v) == [raised |-> FALSE, value |-> v]
Raise == [raised |-> TRUE, value |-> Null]

extract_content(name, tool_input) ==
    IF name = sBash
    THEN Ret(Some(Truncate(Val(Or(Get(tool_input, "command", Null), Some(EmptyText))),
                           CommandMaxLen)))
    ELSE IF name \in {sRead, sWrite, sEdit}
    THEN Ret(Get(tool_input, "file_path", Some(EmptyText)))
    ELSE IF name = sGrep
    THEN LET pattern == Get(tool_input, "pattern", Some(EmptyText))
             path == Get(tool_input, "path", Some(EmptyText))
         IN  IF Truthy(path)
             THEN Ret(Some(TextOf(Fmt(pattern) \o <<" ", "i", "n", " ">> \o Fmt(path))))
             ELSE Ret(pattern)
    ELSE IF name = sGlob
    THEN Ret(Get(tool_input, "pattern", Some(EmptyText)))
    ELSE IF name = sTask
    THEN LET description == Get(tool_input, "description", Null)
             prompt == Get(tool_input, "prompt", Some(EmptyText))
         IN  IF Truthy(description) THEN Ret(description)
             ELSE IF prompt = Null THEN Raise
             ELSE Ret(Some(Truncate(Val(prompt), TaskMaxLen)))
    ELSE IF name = sWebFetch
    THEN Ret(Get(tool_input, "url", Some(EmptyText)))
    ELSE IF name = sWebSearch
    THEN Ret(Get(tool_input, "query", Some(EmptyText)))
    ELSE IF name = sAskUserQuestion
    THEN LET qs == Get(tool_input, "questions", <<>>)
         IN  IF Len(qs) > 0
             THEN Ret(Get(qs[1], "question", Some(EmptyText)))
             ELSE Ret(Some(TextOf(name)))
    ELSE Ret(Some(TextOf(name)))

(***************************************************************************)
(* The capture hook's own copies of the three functions (capture.py), for  *)
(* a PostToolUse event.  The names carry the function's name in the hook;  *)
(* a tool name that is missing or empty is the empty sequence.             *)
(***************************************************************************)
sPostToolUse == <<"P", "o", "s", "t", "T", "o", "o", "l", "U", "s", "e">>

\* v or ""
OrEmpty(v) == Or(v, Some(EmptyText))

classify_obs_type(event, tool_name, tool_response) ==
    IF tool_name = sBash
    THEN (IF HasErrorMarker(tool_response) THEN tCommandError ELSE tCommand)
    ELSE IF tool_name = sRead THEN tFileRead
    ELSE IF tool_name = sWrite THEN tFileWrite
    ELSE IF tool_name = sEdit THEN tFileEdit
    ELSE IF tool_name \in {sGrep, sGlob} THEN tSearch
    ELSE IF /\ Len(tool_name) > 0
            /\ \/ Contains(ToLower(tool_name), <<"m", "c", "p">>)
               \/ HasDunder(tool_name)
    THEN tMcpCall
    ELSE IF Len(tool_name) > 0 THEN tToolPrefix \o tool_name
    ELSE ToLower(event)

capture_extract_content(event, tool_name, tool_input) ==
    IF tool_name = sBash
    THEN Ret(Some(Truncate(Val(OrEmpty(Get(tool_input, "command", Null))),
                           CommandMaxLen)))
    ELSE IF tool_name \in {sRead, sWrite, sEdit}
    THEN Ret(OrEmpty(Get(tool_input, "file_path", Null)))
    ELSE IF tool_name = sGrep
    THEN LET pattern == OrEmpty(Get(tool_input, "pattern", Null))
             path == OrEmpty(Get(tool_input, "path", Null))
         IN  IF Truthy(path)
             THEN Ret(Some(TextOf(Fmt(pattern) \o <<" ", "i", "n", " ">> \o Fmt(path))))
             ELSE Ret(pattern)
    ELSE IF tool_name = sGlob
    THEN Ret(OrEmpty(Get(tool_input, "pattern", Null)))
    ELSE IF tool_name = sTask
    THEN Ret(OrEmpty(Get(tool_input, "description", Null)))
    ELSE IF tool_name = sWebFetch
    THEN Ret(OrEmpty(Get(tool_input, "url", Null)))
    ELSE IF tool_name = sWebSearch
    THEN Ret(OrEmpty(Get(tool_input, "query", Null)))
    ELSE IF Len(tool_name) > 0 THEN Ret(Some(TextOf(tool_name)))
    ELSE Ret(Some(TextOf(event)))

capture_extract_file_path(tool_name, tool_input) ==
    IF tool_name \in {sRead, sWrite, sEdit} THEN Get(tool_input, "file_path", Null)
    ELSE IF tool_name \in {sGrep, sGlob} THEN Get(tool_input, "path", Null)
    ELSE Null

(***************************************************************************)
(* Project derivation.  A path is the sequence of its parts below the      *)
(* root; "" (and "/") is the empty sequence.                               *)
(***************************************************************************)
Home == <<"home", "u">>
SkipParts == {"workspace", "dev", "viablesys", "forge"}

IsUnder(p, base) == Len(p) >= Len(base) /\ SubSeq(p, 1, Len(base)) = base

derive_project(cwd) ==
    IF cwd = <<>> THEN "unknown"
    ELSE IF ~IsUnder(cwd, Home) THEN cwd[Len(cwd)]
    ELSE LET parts == SubSeq(cwd, Len(Home) + 1, Len(cwd))
         IN  IF parts = <<>> THEN "home"
             ELSE IF \E k \in 1..Len(parts) : parts[k] \notin SkipParts
             THEN parts[CHOOSE k \in 1..Len(parts) :
                          /\ parts[k] \notin SkipParts
                          /\ \A j \in 1..(k - 1) : parts[j] \in SkipParts]
             ELSE parts[Len(parts)]

(***************************************************************************)
(* The store.  A database d is [sessions, prompts, observations, cursor]:  *)
(* sessions and cursor map a session id to Null or <<row>>; prompts and    *)
(* observations are the rows in id order (ids are 1, 2, ...: INTEGER       *)
(* PRIMARY KEY and no row is ever deleted).  fts tells whether the search  *)
(* index tables and their triggers exist; prompts_fts and observations_fts *)
(* are the index entries [rowid, content] in insertion order.              *)
(***************************************************************************)
EmptyDb ==
    [sessions     |-> [s \in SessionIds |-> Null],
     prompts      |-> <<>>,
     observations |-> <<>>,
     cursor       |-> [s \in SessionIds |-> Null],
     fts          |-> TRUE,
     prompts_fts  |-> <<>>,
     observations_fts |-> <<>>]

\* The store where SQLite has no FTS5 module: creating the index tables
\* raises OperationalError, which get_db swallows
EmptyDbNoFts == [EmptyDb EXCEPT !.fts = FALSE]

\* Triggers prompts_ai and observations_ai, run by the INSERT itself
prompts_ai(d, rowid, content) ==
    IF d.fts
    THEN [d EXCEPT !.prompts_fts = Append(@, [rowid |-> rowid, content |-> content])]
    ELSE d

observations_ai(d, rowid, content) ==
    IF d.fts
    THEN [d EXCEPT !.observations_fts =
                      Append(@, [rowid |-> rowid, content |-> content])]
    ELSE d

\* Variant: foreign keys not enforced (the pragma left at its default)
ForeignKeyOff(d, session_id) == TRUE

\* prompts.session_id and observations.session_id REFERENCES sessions(id),
\* enforced because get_db sets PRAGMA foreign_keys = ON
ForeignKeyOk(d, session_id) == d.sessions[session_id] # Null

\* INSERT INTO prompts: a result [raised, db, lastrowid]
InsertPrompt(d, session_id, source, content) ==
    IF ~ForeignKeyOk(d, session_id)
    THEN [raised |-> TRUE, db |-> d, lastrowid |-> Null]
    ELSE [raised |-> FALSE,
          db |-> prompts_ai([d EXCEPT !.prompts = Append(@,
                                [session_id |-> session_id, source |-> source,
                                 content |-> content])],
                            Len(d.prompts) + 1, content),
          lastrowid |-> Some(Len(d.prompts) + 1)]

\* Variant: INSERT OR REPLACE over the newest observation
InsertObservationReplace(d, row) ==
    IF \/ ~ForeignKeyOk(d, row.session_id)
       \/ row.content = Null
       \/ (row.prompt_id # Null /\ Val(row.prompt_id) \notin 1..Len(d.prompts))
    THEN [raised |-> TRUE, db |-> d]
    ELSE IF Len(d.observations) = 0
    THEN [raised |-> FALSE,
          db |-> observations_ai([d EXCEPT !.observations = Append(@, row)],
                                 1, Val(row.content))]
    ELSE [raised |-> FALSE,
          db |-> [d EXCEPT !.observations[Len(d.observations)] = row]]

\* INSERT INTO observations: content is NOT NULL, prompt_id REFERENCES prompts(id)
InsertObservation(d, row) ==
    IF \/ ~ForeignKeyOk(d, row.session_id)
       \/ row.content = Null
       \/ (row.prompt_id # Null /\ Val(row.prompt_id) \notin 1..Len(d.prompts))
    THEN [raised |-> TRUE, db |-> d]
    ELSE [raised |-> FALSE,
          db |-> observations_ai([d EXCEPT !.observations = Append(@, row)],
                                 Len(d.observations) + 1, Val(row.content))]

\* Variant: INSERT OR REPLACE, whether or not the row exists
ensure_session_replace(d, session_id, cwd, ts) ==
    [d EXCEPT !.sessions[session_id] =
        Some([project |-> derive_project(cwd), started_at |-> ts,
              ended_at |-> Null, signature |-> Null])]

\* Variant: an existing row's project and started_at follow the latest event
ensure_session_touch(d, session_id, cwd, ts) ==
    IF d.sessions[session_id] = Null
    THEN [d EXCEPT !.sessions[session_id] =
             Some([project |-> derive_project(cwd), started_at |-> ts,
                   ended_at |-> Null, signature |-> Null])]
    ELSE [d EXCEPT !.sessions[session_id] =
             Some([Val(@) EXCEPT !.project = derive_project(cwd),
                                 !.started_at = ts])]

ensure_session(d, session_id, cwd, ts) ==
    IF d.sessions[session_id] = Null
    THEN [d EXCEPT !.sessions[session_id] =
             Some([project |-> derive_project(cwd), started_at |-> ts,
                   ended_at |-> Null, signature |-> Null])]
    ELSE d

PromptIdsOf(d, session_id) ==
    {k \in 1..Len(d.prompts) : d.prompts[k].session_id = session_id}

MaxOf(S) == CHOOSE m \in S : \A x \in S : x <= m
MinOf(S) == CHOOSE m \in S : \A x \in S : m <= x

\* Variant: the most recent prompt of any session (no WHERE clause)
get_current_prompt_id_any(d, session_id) ==
    IF Len(d.prompts) = 0 THEN Null ELSE Some(Len(d.prompts))

\* Variant: the oldest prompt of the session (ORDER BY id ASC)
get_current_prompt_id_first(d, session_id) ==
    IF PromptIdsOf(d, session_id) = {} THEN Null
    ELSE Some(MinOf(PromptIdsOf(d, session_id)))

\* SELECT id FROM prompts WHERE session_id = ? ORDER BY id DESC LIMIT 1
get_current_prompt_id(d, session_id) ==
    IF PromptIdsOf(d, session_id) = {} THEN Null
    ELSE Some(MaxOf(PromptIdsOf(d, session_id)))

\* Variant: no content check, the cursor alone decides what is new
ExistingAgentPromptNone(d, session_id, content) == Null

\* Variant: the content check looks at every session's prompts
ExistingAgentPromptAnySession(d, session_id, content) ==
    LET hits == {k \in 1..Len(d.prompts) :
                    d.prompts[k].source = "agent" /\ d.prompts[k].content = content}
    IN  IF hits = {} THEN Null ELSE Some(MinOf(hits))

\* SELECT id FROM prompts WHERE session_id = ? AND source = 'agent' AND content = ?
ExistingAgentPrompt(d, session_id, content) ==
    LET hits == {k \in PromptIdsOf(d, session_id) :
                    d.prompts[k].source = "agent" /\ d.prompts[k].content = content}
    IN  IF hits = {} THEN Null ELSE Some(MinOf(hits))

(***************************************************************************)
(* Transcript files.  A file is [state, lines]; a line is one of           *)
(*   blank      empty after strip(): skipped                               *)
(*   notjson    json.loads raises JSONDecodeError: skipped                 *)
(*   nonobject  valid JSON that is no object: entry.get raises             *)
(*   entry      a JSON object with a type and the message's content blocks *)
(***************************************************************************)
Line(kind, type, blocks) == [kind |-> kind, type |-> type, blocks |-> blocks]
Thinking(t) == [type |-> "thinking", thinking |-> t]
TextBlock == [type |-> "text", thinking |-> EmptyText]

MissingFile == [state |-> "missing", lines |-> <<>>]
UnreadableFile == [state |-> "unreadable", lines |-> <<>>]
File(lines) == [state |-> "file", lines |-> lines]

\* Variant: a scan that fails starts over from the first line
NewCursorResetOnError(raised, nlines, cursor) ==
    IF raised THEN 0
    ELSE IF nlines > 0 THEN nlines
    ELSE cursor

\* Variant: the index of the last line read instead of one past it
NewCursorLastIndex(raised, nlines, cursor) ==
    IF raised THEN cursor
    ELSE IF nlines > 0 THEN nlines - 1
    ELSE cursor

\* new_cursor, from whether the try block raised, the number of lines the
\* loop enumerated and the cursor read at the start
NewCursor(raised, nlines, cursor) ==
    IF raised THEN cursor
    ELSE IF nlines > 0 THEN nlines
    ELSE cursor

\* Variant: a segment found already stored does not become the current prompt
ScanBlockKeepLatest(acc, session_id, block) ==
    LET thinking == Strip(block.thinking)
        truncated == Truncate(thinking, AgentMaxLen)
    IN  IF block.type # "thinking" \/ TextLen(thinking) = 0
        THEN acc
        ELSE The({
            IF existing # Null
            THEN [acc EXCEPT !.hits = @ + 1, !.texts = @ \cup {truncated}]
            ELSE The({
                IF ins.raised
                THEN [acc EXCEPT !.raised = TRUE, !.texts = @ \cup {truncated}]
                ELSE [acc EXCEPT !.db = ins.db, !.latest = ins.lastrowid,
                                 !.texts = @ \cup {truncated}]
                : ins \in {InsertPrompt(acc.db, session_id, "agent", truncated)}})
            : existing \in {ExistingAgentPrompt(acc.db, session_id, truncated)}})

\* One content block: acc is [db, latest, raised, parsed, hits, texts], the
\* connection's view, latest_prompt_id, whether an exception left the try
\* block, the lines read past the cursor, the segments found already stored,
\* the truncated reasoning texts met.
ScanBlock(acc, session_id, block) ==
    LET thinking == Strip(block.thinking)
        truncated == Truncate(thinking, AgentMaxLen)
    IN  IF block.type # "thinking" \/ TextLen(thinking) = 0
        THEN acc
        ELSE The({
            IF existing # Null
            THEN [acc EXCEPT !.latest = existing, !.hits = @ + 1,
                             !.texts = @ \cup {truncated}]
            ELSE The({
                IF ins.raised
                THEN [acc EXCEPT !.raised = TRUE, !.texts = @ \cup {truncated}]
                ELSE [acc EXCEPT !.db = ins.db, !.latest = ins.lastrowid,
                                 !.texts = @ \cup {truncated}]
                : ins \in {InsertPrompt(acc.db, session_id, "agent", truncated)}})
            : existing \in {ExistingAgentPrompt(acc.db, session_id, truncated)}})

\* The loop over content_blocks, from block k on
RECURSIVE ScanBlocks(_, _, _, _)
ScanBlocks(acc, session_id, blocks, k) ==
    IF acc.raised \/ k > Len(blocks) THEN acc
    ELSE The({ScanBlocks(a, session_id, blocks, k + 1) :
                 a \in {ScanBlock(acc, session_id, blocks[k])}})

\* One line at or past the cursor
ScanLine(acc, session_id, line) ==
    IF line.kind \in {"blank", "notjson"}
    THEN [acc EXCEPT !.parsed = @ + 1]
    ELSE IF line.kind = "nonobject"
    THEN [acc EXCEPT !.parsed = @ + 1, !.raised = TRUE]
    ELSE IF line.type # "assistant"
    THEN [acc EXCEPT !.parsed = @ + 1]
    ELSE The({ScanBlocks(seen, session_id, line.blocks, 1) :
                 seen \in {[acc EXCEPT !.parsed = @ + 1]}})

\* The loop over the file's lines, from line k on (k = i + 1)
RECURSIVE ScanLines(_, _, _, _, _)
ScanLines(acc, session_id, lines, k, cursor) ==
    IF acc.raised \/ k > Len(lines) THEN acc
    ELSE IF k - 1 < cursor
    THEN ScanLines(acc, session_id, lines, k + 1, cursor)
    ELSE The({ScanLines(a, session_id, lines, k + 1, cursor) :
                 a \in {ScanLine(acc, session_id, lines[k])}})

\* scan_transcript up to the end of its try block: acc, with whether the file
\* existed (ran) and the cursor read at the start
ScanFrom(start, session_id, file, cursor) ==
    The({[db |-> res.db, latest |-> res.latest, raised |-> res.raised,
          parsed |-> res.parsed, hits |-> res.hits, texts |-> res.texts,
          ran |-> file.state # "missing", cursor |-> cursor] :
         res \in {IF file.state = "missing" THEN start
                  ELSE IF file.state = "unreadable" THEN [start EXCEPT !.raised = TRUE]
                  ELSE ScanLines(start, session_id, file.lines, 1, cursor)}})

ScanLoop(d, session_id, file) ==
    The({ScanFrom(start, session_id, file,
                  IF d.cursor[session_id] = Null THEN 0 ELSE Val(d.cursor[session_id])) :
         start \in {[db |-> d, latest |-> get_current_prompt_id(d, session_id),
                     raised |-> FALSE, parsed |-> 0, hits |-> 0, texts |-> {}]}})

\* The return and the cursor upsert after the loop
ScanEnd(d, session_id, file, loop) ==
    IF ~loop.ran
    THEN [db |-> d, loopdb |-> d, prompt_id |-> loop.latest, info |-> loop]
    ELSE [db |-> [loop.db EXCEPT !.cursor[session_id] =
                     Some(NewCursor(loop.raised, Len(file.lines), loop.cursor))],
          loopdb |-> loop.db,
          prompt_id |-> loop.latest,
          info |-> loop]

\* scan_transcript: the connection's view after the loop (loopdb) and after
\* the cursor upsert (db), the prompt id returned, and what the scan did
scan_transcript(d, session_id, file) ==
    The({ScanEnd(d, session_id, file, loop) : loop \in {ScanLoop(d, session_id, file)}})

(***************************************************************************)
(* Session signature: the rows of the query that groups the session's      *)
(* observations by obs_type and orders the groups by descending row count. *)
(* SQL leaves the order of rows with equal counts open.                    *)
(***************************************************************************)
ObsIdsOf(d, session_id) ==
    {k \in 1..Len(d.observations) : d.observations[k].session_id = session_id}

ObsTypesOf(d, session_id) ==
    {d.observations[k].obs_type : k \in ObsIdsOf(d, session_id)}

ObsCount(d, session_id, t) ==
    Cardinality({k \in ObsIdsOf(d, session_id) : d.observations[k].obs_type = t})

\* Variant: ascending order
OrderedByCountAsc(d, session_id, order) ==
    \A i \in 1..Len(order) : \A j \in 1..Len(order) :
        i < j => ObsCount(d, session_id, order[i]) <= ObsCount(d, session_id, order[j])

\* the ORDER BY clause over the grouped rows
OrderedByCount(d, session_id, order) ==
    \A i \in 1..Len(order) : \A j \in 1..Len(order) :
        i < j => ObsCount(d, session_id, order[i]) >= ObsCount(d, session_id, order[j])

SignatureRows(d, session_id) ==
    LET types == ObsTypesOf(d, session_id)
        n == Cardinality(types)
        orders == {f \in [1..n -> types] :
                      /\ \A i \in 1..n : \A j \in 1..n : f[i] = f[j] => i = j
                      /\ OrderedByCount(d, session_id, f)}
    IN  {[k \in 1..n |-> <<f[k], ObsCount(d, session_id, f[k])>>] : f \in orders}

\* json.dumps([...]) if rows else None
SignatureOf(rows) == IF Len(rows) > 0 THEN Some(rows) ELSE Null

(***************************************************************************)
(* Handlers.  A handler run is [steps, ok, scan]: steps[k] is the          *)
(* connection's view after the handler's k-th writing statement, ok says   *)
(* whether the handler reached conn.commit() (FALSE: it raised after the   *)
(* last step, or returned early), scan is what its transcript scan did.    *)
(***************************************************************************)
\* What a handler's scan did: whether the file existed, whether the try block
\* raised, the lines read past the cursor, the segments found already stored,
\* the reasoning texts met, the cursor the scan started from
NoScan ==
    [ran |-> FALSE, raised |-> FALSE, parsed |-> 0, hits |-> 0, texts |-> {},
     cursor |-> 0]

ScanInfo(sc) ==
    [ran |-> sc.info.ran, raised |-> sc.info.raised, parsed |-> sc.info.parsed,
     hits |-> sc.info.hits, texts |-> sc.info.texts, cursor |-> sc.info.cursor]

Marker == <<"<", "s", "y", "s", "t", "e", "m", "-",
            "r", "e", "m", "i", "n", "d", "e", "r", ">">>

\* Variant: no prompt is taken for a system reminder
StartsWithMarkerNever(t) == FALSE

\* prompt.startswith("<system-reminder>")
StartsWithMarker(t) ==
    /\ t.pre = 0
    /\ t.len >= Len(Marker)
    /\ Len(t.stem) >= Len(Marker)
    /\ SubSeq(t.stem, 1, Len(Marker)) = Marker

\* Variant: a fresh start is recorded as well
ResumeSourcesAll == {"compact", "resume", "clear", "startup"}

ResumeSources == {"compact", "resume", "clear"}

SourceType(source) ==
    CASE source = "compact" -> <<"c", "o", "m", "p", "a", "c", "t">>
      [] source = "resume"  -> <<"r", "e", "s", "u", "m", "e">>
      [] source = "clear"   -> <<"c", "l", "e", "a", "r">>
      [] OTHER              -> <<"s", "t", "a", "r", "t", "u", "p">>

SessionStartFrom(d1, session_id, source) ==
    IF source \notin ResumeSources
    THEN [steps |-> <<d1>>, ok |-> TRUE, scan |-> NoScan]
    ELSE The({
        IF ins.raised
        THEN [steps |-> <<d1>>, ok |-> FALSE, scan |-> NoScan]
        ELSE [steps |-> <<d1, ins.db>>, ok |-> TRUE, scan |-> NoScan]
        : ins \in {InsertObservation(d1,
                      [session_id |-> session_id,
                       prompt_id |-> get_current_prompt_id(d1, session_id),
                       obs_type |-> tSessionPrefix \o SourceType(source),
                       source_event |-> "SessionStart",
                       tool_name |-> Null, file_path |-> Null,
                       content |-> Some(TextOf(SourceType(source)))])}})

handle_session_start(d, session_id, cwd, source, ts) ==
    The({SessionStartFrom(d1, session_id, source) :
         d1 \in {ensure_session(d, session_id, cwd, ts)}})

UserPromptFrom(d1, session_id, prompt) ==
    The({
        IF ins.raised
        THEN [steps |-> <<d1>>, ok |-> FALSE, scan |-> NoScan]
        ELSE [steps |-> <<d1, ins.db>>, ok |-> TRUE, scan |-> NoScan]
        : ins \in {InsertPrompt(d1, session_id, "user", Truncate(prompt, UserMaxLen))}})

handle_user_prompt(d, session_id, cwd, prompt, ts) ==
    IF TextLen(prompt) = 0 \/ StartsWithMarker(prompt)
    THEN [steps |-> <<>>, ok |-> FALSE, scan |-> NoScan]
    ELSE The({UserPromptFrom(d1, session_id, prompt) :
              d1 \in {ensure_session(d, session_id, cwd, ts)}})

\* The statements after the scan: classification and the observation insert
PostToolUseFrom(d1, sc, session_id, tool_name, tool_input) ==
    The({
        IF content.raised
        THEN [steps |-> <<d1, sc.loopdb, sc.db>>, ok |-> FALSE, scan |-> ScanInfo(sc)]
        ELSE The({
            IF ins.raised
            THEN [steps |-> <<d1, sc.loopdb, sc.db>>, ok |-> FALSE,
                  scan |-> ScanInfo(sc)]
            ELSE [steps |-> <<d1, sc.loopdb, sc.db, ins.db>>, ok |-> TRUE,
                  scan |-> ScanInfo(sc)]
            : ins \in {InsertObservation(sc.db,
                          [session_id |-> session_id,
                           prompt_id |-> sc.prompt_id,
                           obs_type |-> classify_tool(tool_name),
                           source_event |-> "PostToolUse",
                           tool_name |-> Some(tool_name),
                           file_path |-> extract_file_path(tool_name, tool_input),
                           content |-> content.value])}})
        : content \in {extract_content(tool_name, tool_input)}})

PostToolUseScan(d1, session_id, tool_name, tool_input, file) ==
    The({PostToolUseFrom(d1, sc, session_id, tool_name, tool_input) :
         sc \in {scan_transcript(d1, session_id, file)}})

handle_post_tool_use(d, session_id, cwd, tool_name, tool_input, file, ts) ==
    The({PostToolUseScan(d1, session_id, tool_name, tool_input, file) :
         d1 \in {ensure_session(d, session_id, cwd, ts)}})

\* Variant: the signature is frozen at the first Stop
StopFromFrozen(sc, session_id, rows, ts) ==
    [steps |-> <<sc.loopdb, sc.db,
                 IF sc.db.sessions[session_id] = Null THEN sc.db
                 ELSE [sc.db EXCEPT !.sessions[session_id] =
                          Some([Val(@) EXCEPT
                                  !.ended_at = Some(ts),
                                  !.signature =
                                      IF Val(sc.db.sessions[session_id]).ended_at = Null
                                      THEN SignatureOf(rows) ELSE @])]>>,
     ok |-> TRUE, scan |-> ScanInfo(sc)]

\* The UPDATE of the session row (no row: nothing is updated)
StopFrom(sc, session_id, rows, ts) ==
    [steps |-> <<sc.loopdb, sc.db,
                 IF sc.db.sessions[session_id] = Null THEN sc.db
                 ELSE [sc.db EXCEPT !.sessions[session_id] =
                          Some([Val(@) EXCEPT !.ended_at = Some(ts),
                                              !.signature = SignatureOf(rows)])]>>,
     ok |-> TRUE, scan |-> ScanInfo(sc)]

\* Variant: Stop ensures the session before it scans, as the other handlers do
handle_stop_ensuring(d, session_id, file, rows, ts) ==
    The({StopFrom(sc, session_id, rows, ts) :
         sc \in {scan_transcript(ensure_session(d, session_id, <<>>, ts),
                                 session_id, file)}})

\* rows: the result of the signature query, one of SignatureRows
handle_stop(d, session_id, file, rows, ts) ==
    The({StopFrom(sc, session_id, rows, ts) :
         sc \in {scan_transcript(d, session_id, file)}})

(***************************************************************************)
(* main: the connection is closed in the finally clause.  conn.commit()    *)
(* makes the connection's view the store; closing a connection whose       *)
(* transaction was not committed rolls it back (WAL journal).              *)
(***************************************************************************)
Commit(committed, pending) == pending

\* Variant: autocommit, every statement is durable at once
CloseKeepsPending(committed, pending) == pending

CloseUncommitted(committed, pending) == committed

(***************************************************************************)
(* Inputs of the model.  A behaviour explores one scope, fixed by Init:    *)
(*   scan       one session; every kind of transcript line, files of up to *)
(*              MaxLines lines, up to MaxPrompts prompts, one observation  *)
(*   sessions   two sessions; transcripts of at most one reasoning line,   *)
(*              up to MaxPrompts prompts, one observation                  *)
(*   clock      one session; the clock runs up to MaxTime, two working     *)
(*              directories, crashes and storage errors are injected       *)
(*   signature  one session; up to MaxObs observations of several types    *)
(*   reuse      one session; transcripts of up to MaxReuseLines lines that *)
(*              all hold the same reasoning text,                          *)
(*              up to MaxReuse observations, the invocation before the     *)
(*              last one is remembered                                     *)
(*   content    one session; prompts and reasoning texts longer than is    *)
(*              kept, of blanks, or beginning with the marker              *)
(*   failure    one session; faults are exceptions or process deaths, the  *)
(*              error sink answers or not, payloads without a handler      *)
(*   nofts      one session; SQLite has no FTS5 module                     *)
(*   append     one session; the transcript only grows, and a line may be  *)
(*              read while the agent's process is still writing it         *)
(***************************************************************************)
Scopes ==
    {"scan", "sessions", "clock", "signature", "reuse", "content", "failure", "nofts",
     "append"}

ScopeSessions == IF scope = "sessions" THEN SessionIds ELSE {"s1"}

CwdNmem == <<"home", "u", "workspace", "nmem">>
CwdTmp == <<"tmp">>
Cwds == IF scope = "clock" THEN {CwdNmem, CwdTmp} ELSE {CwdNmem}

StartSources ==
    IF scope \in {"clock", "signature"} THEN {"startup", "resume"} ELSE {"startup"}

PromptGo == TextOf(<<"g", "o">>)
PromptReminder == TextOf(Marker \o <<"f", "o", "o">>)
\* A prompt one character longer than is kept, and one of blanks only
PromptLong == Txt(<<"y">>, UserMaxLen + 1)
PromptBlank == [pre |-> 2, stem |-> <<>>, len |-> 0, post |-> 0]
UserPrompts ==
    IF scope = "scan" THEN {EmptyText, PromptReminder, PromptGo}
    ELSE IF scope = "content" THEN {PromptLong, PromptBlank}
    ELSE {PromptGo}

ToolBashLs ==
    [tool_name |-> sBash,
     tool_input |-> [command |-> Some(TextOf(<<"l", "s", " ", "-", "l", "a">>))]]
ToolReadF ==
    [tool_name |-> sRead,
     tool_input |-> [file_path |-> Some(TextOf(<<"/", "f">>))]]
ToolTaskNull ==
    [tool_name |-> sTask, tool_input |-> [prompt |-> Null]]
\* A Bash call that failed: the payload carries the tool's response text
ToolBashFail ==
    [tool_name |-> sBash,
     tool_input |-> [command |-> Some(TextOf(<<"l", "s", " ", "-", "l", "a">>))],
     tool_response |-> Some(<<"E", "x", "i", "t", " ", "c", "o", "d", "e", " ", "2">>)]
ToolPayloads ==
    IF scope = "signature" THEN {ToolBashLs, ToolReadF}
    ELSE IF scope = "reuse" THEN {ToolBashLs}
    ELSE IF scope = "scan" THEN {ToolBashLs, ToolTaskNull, ToolBashFail}
    ELSE {ToolBashLs, ToolTaskNull}

ThinkA == TextOf(<<"A">>)
ThinkB == Padded(<<"B">>, 1)
LineUser == Line("entry", "user", <<>>)
LineA == Line("entry", "assistant", <<Thinking(ThinkA)>>)
LineB == Line("entry", "assistant", <<TextBlock, Thinking(ThinkB)>>)
LineNotJson == Line("notjson", "", <<>>)
LineNonObject == Line("nonobject", "", <<>>)
\* Reasoning that begins with the marker, and two reasoning texts longer than
\* is kept that agree on their first AgentMaxLen characters
ThinkLong == Txt(<<"x">>, AgentMaxLen + 1)
ThinkLonger == Txt(<<"x">>, AgentMaxLen + 2)
LineReminder == Line("entry", "assistant", <<Thinking(PromptReminder)>>)
LineLong == Line("entry", "assistant", <<Thinking(ThinkLong)>>)
LineLonger == Line("entry", "assistant", <<Thinking(ThinkLonger)>>)
\* The first part of LineA, as a reader finds it while the line is being
\* written: no complete JSON value yet
LinePartialA == Line("notjson", "assistant", <<Thinking(ThinkA)>>)
Lines ==
    IF scope = "content" THEN {LineReminder, LineLong, LineLonger}
    ELSE IF scope = "append" THEN {LineA, LinePartialA}
    ELSE IF scope = "scan" THEN {LineUser, LineA, LineB, LineNonObject, LineNotJson}
    ELSE IF scope = "signature" THEN {}
    ELSE IF scope = "reuse" THEN {LineA}
    ELSE {LineA}

LineCap ==
    IF scope \in {"scan", "content", "append"} THEN MaxLines
    ELSE IF scope = "reuse" THEN MaxReuseLines
    ELSE 1

PromptCap ==
    IF scope \in {"scan", "sessions", "reuse", "content"} THEN MaxPrompts ELSE 1

ObsCap ==
    IF scope = "signature" THEN MaxObs
    ELSE IF scope = "reuse" THEN MaxReuse
    ELSE 1

\* The fault points of a handler run: crashes and storage errors are injected
\* in the clock and failure scopes; a handler that raises by itself does so
\* in every scope
Faults(h) == IF scope \in {"clock", "failure"} THEN 0..Len(h.steps) ELSE {0}

\* In the failure scope the error sink answers or not, and a fault is an
\* exception or the death of the process
Sinks == IF scope = "failure" THEN {"up", "down"} ELSE {"up"}
Kills(fault) == IF scope = "failure" /\ fault > 0 THEN {FALSE, TRUE} ELSE {FALSE}

\* The sink's state matters only to an invocation that calls log_error
SinksFor(raised, killed) == IF raised /\ ~killed THEN Sinks ELSE {"up"}

Times == IF scope = "clock" THEN {t \in {now, now + 1} : t <= MaxTime} ELSE {now}

(***************************************************************************)
(* The state machine.                                                      *)
(***************************************************************************)
Events == {"SessionStart", "UserPromptSubmit", "PostToolUse", "Stop"}

\* History: what the store held for the event's session before the event ...
NoBefore == [session |-> Null, prompts |-> 0, observations |-> 0]

Before(session_id) ==
    [session |-> db.sessions[session_id], prompts |-> Len(db.prompts),
     observations |-> Len(db.observations)]

\* ... and the invocation before it (remembered in the reuse scope only)
NoPrior == [event |-> "none", session_id |-> "", outcome |-> "none", texts |-> {}]

Prior ==
    IF scope # "reuse" THEN NoPrior
    ELSE IF last.event \in Events
    THEN [event |-> last.event, session_id |-> last.session_id,
          outcome |-> last.outcome, texts |-> last.scan.texts]
    ELSE last.prior

\* The record of a step that is no invocation
Env(event, session_id) ==
    [event |-> event, session_id |-> session_id, outcome |-> "none", wrote |-> FALSE,
     scan |-> NoScan, input |-> Null, before |-> NoBefore, prior |-> NoPrior,
     report |-> "none", exit |-> "none"]

NoConns == <<>>

Init ==
    /\ scope \in Scopes
    /\ db = IF scope = "nofts" THEN EmptyDbNoFts ELSE EmptyDb
    /\ transcript = [s \in SessionIds |-> MissingFile]
    /\ now = 1
    /\ last = Env("Init", "")
    /\ conns = NoConns

\* One invocation of main for a payload with a session_id: the handler run h,
\* hit by a fault (a storage error or a crash) after its fault-th writing
\* statement; fault 0 is none.
Pending(h, fault) ==
    IF fault > 0 THEN h.steps[fault]
    ELSE IF Len(h.steps) > 0 THEN h.steps[Len(h.steps)]
    ELSE db

\* Variant: the sink's failure is not caught
log_error_unguarded(sink) == IF sink = "up" THEN "sent" ELSE "raised"

\* The report is posted to the sink; a failure to post is swallowed
log_error(sink) == IF sink = "up" THEN "sent" ELSE "lost"

\* The entry point: an exception that leaves main is passed to log_error;
\* what the caller sees is a normal exit unless log_error raises itself
Report(raised, killed, sink) ==
    IF raised /\ ~killed THEN log_error(sink) ELSE "none"

Exit(report, killed) ==
    IF killed THEN "killed" ELSE IF report = "raised" THEN "error" ELSE "normal"

Invoke(event, session_id, input, h, fault, ts) ==
    \E pending \in {Pending(h, fault)}, commits \in {fault = 0 /\ h.ok} :
        /\ Len(pending.prompts) <= PromptCap
        /\ Len(pending.observations) <= ObsCap
        /\ db' = IF commits THEN Commit(db, pending)
                 ELSE CloseUncommitted(db, pending)
        /\ \E outcome \in {IF commits THEN "committed"
                            ELSE IF fault = 0 /\ Len(h.steps) = 0 THEN "returned"
                            ELSE "aborted"} :
               \E killed \in Kills(fault) :
                   \E sink \in SinksFor(outcome = "aborted", killed) :
                       \E report \in {Report(outcome = "aborted", killed, sink)} :
                           last' = [event |-> event, session_id |-> session_id,
                                    outcome |-> outcome,
                                    wrote |-> ~commits /\ pending # db,
                                    scan |-> h.scan,
                                    input |-> input,
                                    before |-> Before(session_id),
                                    prior |-> Prior,
                                    report |-> report,
                                    exit |-> Exit(report, killed)]
        /\ now' = ts
        /\ UNCHANGED <<transcript, scope, conns>>

SessionStart ==
    \E session_id \in ScopeSessions, cwd \in Cwds, source \in StartSources, ts \in Times :
        \E h \in {handle_session_start(db, session_id, cwd, source, ts)} :
            \E fault \in Faults(h) :
                Invoke("SessionStart", session_id, [cwd |-> cwd, source |-> source],
                       h, fault, ts)

UserPromptSubmit ==
    \E session_id \in ScopeSessions, cwd \in Cwds, prompt \in UserPrompts, ts \in Times :
        \E h \in {handle_user_prompt(db, session_id, cwd, prompt, ts)} :
            \E fault \in Faults(h) :
                Invoke("UserPromptSubmit", session_id, [cwd |-> cwd, prompt |-> prompt],
                       h, fault, ts)

PostToolUse ==
    \E session_id \in ScopeSessions, cwd \in Cwds, tool \in ToolPayloads, ts \in Times :
        \E h \in {handle_post_tool_use(db, session_id, cwd, tool.tool_name,
                                        tool.tool_input, transcript[session_id], ts)} :
            \E fault \in Faults(h) :
                Invoke("PostToolUse", session_id, [cwd |-> cwd, tool |-> tool],
                       h, fault, ts)

Stop ==
    \E session_id \in ScopeSessions, ts \in Times :
        \E rows \in SignatureRows(db, session_id) :
            \E h \in {handle_stop(db, session_id, transcript[session_id], rows, ts)} :
                \E fault \in Faults(h) :
                    Invoke("Stop", session_id, [rows |-> rows], h, fault, ts)

\* Payloads main has no handler for: text that is no JSON, a JSON value that
\* is no object, an object without a usable session_id, an event name outside
\* the four
Payload(kind, session_id, event) ==
    [kind |-> kind, session_id |-> session_id, event |-> event]

BadPayloads ==
    {Payload("notjson", Null, ""),
     Payload("nonobject", Null, ""),
     Payload("object", Null, "Stop"),
     Payload("object", Some(""), "Stop"),
     Payload("object", Some("s1"), "PreToolUse"),
     Payload("object", Some("s1"), "")}

\* How far main gets with a payload before the match
main_entry(payload) ==
    IF payload.kind = "notjson" THEN "return"
    ELSE IF payload.kind = "nonobject" THEN "raise"
    ELSE IF payload.session_id = Null \/ Val(payload.session_id) = "" THEN "return"
    ELSE IF payload.event \in Events THEN "handler"
    ELSE "nohandler"

\* Variant: a default case that treats the event as a session start
UnknownEventAsStart(d, session_id, ts) ==
    handle_session_start(d, session_id, CwdNmem, "startup", ts)

\* The match has no default case: no statement runs
UnknownEvent(d, session_id, ts) == [steps |-> <<>>, ok |-> FALSE, scan |-> NoScan]

\* An invocation of main with such a payload
Discard ==
    /\ scope = "failure"
    /\ \E payload \in BadPayloads :
           \E entry \in {main_entry(payload)} :
               IF entry = "nohandler"
               THEN Invoke("Discarded", Val(payload.session_id), payload,
                           UnknownEvent(db, Val(payload.session_id), now), 0, now)
               ELSE /\ entry # "handler"
                    /\ \E sink \in SinksFor(entry = "raise", FALSE) :
                           \E report \in {Report(entry = "raise", FALSE, sink)} :
                               last' = [Env("Discarded", "") EXCEPT
                                           !.outcome = IF entry = "raise" THEN "aborted"
                                                       ELSE "returned",
                                           !.input = payload,
                                           !.report = report,
                                           !.exit = Exit(report, FALSE)]
                    /\ UNCHANGED <<db, transcript, now, scope, conns>>

\* The agent's process creates a session's transcript file
CreateFile ==
    \E session_id \in ScopeSessions :
        /\ transcript[session_id].state = "missing"
        /\ transcript' = [transcript EXCEPT ![session_id] = File(<<>>)]
        /\ last' = [Env("Transcript", session_id) EXCEPT !.prior = Prior]
        /\ UNCHANGED <<db, now, scope, conns>>

\* ... and appends a line to it, once the line before is written
AppendLine ==
    \E session_id \in ScopeSessions, line \in Lines :
        /\ transcript[session_id].state = "file"
        /\ Len(transcript[session_id].lines) < LineCap
        /\ \A k \in 1..Len(transcript[session_id].lines) :
               transcript[session_id].lines[k] # LinePartialA
        /\ transcript' = [transcript EXCEPT ![session_id].lines = Append(@, line)]
        /\ last' = [Env("Transcript", session_id) EXCEPT !.prior = Prior]
        /\ UNCHANGED <<db, now, scope, conns>>

\* ... and finishes writing its last line
FinishLine ==
    \E session_id \in ScopeSessions :
        /\ transcript[session_id].state = "file"
        /\ Len(transcript[session_id].lines) > 0
        /\ transcript[session_id].lines[Len(transcript[session_id].lines)]
               = LinePartialA
        /\ transcript' = [transcript EXCEPT
               ![session_id].lines[Len(transcript[session_id].lines)] = LineA]
        /\ last' = [Env("Transcript", session_id) EXCEPT !.prior = Prior]
        /\ UNCHANGED <<db, now, scope, conns>>

\* The transcript is compacted out-of-band: its oldest line is dropped
Compact ==
    \E session_id \in ScopeSessions :
        /\ scope # "append"
        /\ transcript[session_id].state = "file"
        /\ Len(transcript[session_id].lines) > 0
        /\ transcript' = [transcript EXCEPT ![session_id].lines = Tail(@)]
        /\ last' = [Env("Transcript", session_id) EXCEPT !.prior = Prior]
        /\ UNCHANGED <<db, now, scope, conns>>

\* The transcript file is removed
RemoveFile ==
    \E session_id \in ScopeSessions :
        /\ scope # "append"
        /\ transcript[session_id].state = "file"
        /\ transcript' = [transcript EXCEPT ![session_id] = MissingFile]
        /\ last' = [Env("Transcript", session_id) EXCEPT !.prior = Prior]
        /\ UNCHANGED <<db, now, scope, conns>>

\* The transcript can no longer be opened (permissions, or the path now names
\* a directory); among the faults of the clock scope
MakeUnreadable ==
    \E session_id \in ScopeSessions :
        /\ scope = "clock"
        /\ transcript[session_id].state = "file"
        /\ transcript' = [transcript EXCEPT ![session_id] = UnreadableFile]
        /\ last' = [Env("Transcript", session_id) EXCEPT !.prior = Prior]
        /\ UNCHANGED <<db, now, scope, conns>>

Next ==
    \/ SessionStart
    \/ UserPromptSubmit
    \/ PostToolUse
    \/ Stop
    \/ Discard
    \/ CreateFile
    \/ AppendLine
    \/ FinishLine
    \/ Compact
    \/ RemoveFile
    \/ MakeUnreadable

Spec == Init /\ [][Next]_vars

(***************************************************************************)
(* Overlapping invocations.  Two PostToolUse invocations for session s1    *)
(* (a delivery and its retry) run at the same time, each on its own        *)
(* connection, statement by statement.  SQLite in WAL mode with Python's   *)
(* implicit transactions: a SELECT outside a transaction reads the         *)
(* committed store; the first INSERT opens the transaction and takes the   *)
(* single write lock, from then on the connection reads its own view;      *)
(* a connection that finds the lock taken waits for it (timeout=5) and     *)
(* either gets it or fails with "database is locked".  The transcript does *)
(* not change while the two run and holds JSON object lines only.          *)
(***************************************************************************)
Procs == {"p1", "p2"}

OverlapSession == "s1"

\* A connection: where its handler stands, the view of its open transaction
\* (Null: none), scan_transcript's locals cursor and latest_prompt_id, the
\* reasoning segments the loop has still to handle, whether the try block
\* raised, how the invocation ended
NewConn ==
    [pc |-> "start", view |-> Null, cursor |-> 0, latest |-> Null, todo |-> <<>>,
     raised |-> FALSE, outcome |-> "running"]

\* What a SELECT of connection p reads
Read(p) == IF conns[p].view # Null THEN Val(conns[p].view) ELSE db

\* No other connection holds the write lock
LockFree(p) == \A q \in Procs \ {p} : conns[q].view = Null

\* The truncated reasoning texts of a line's content blocks, from block k on
RECURSIVE BlockTexts(_, _)
BlockTexts(blocks, k) ==
    IF k > Len(blocks) THEN <<>>
    ELSE IF blocks[k].type # "thinking" \/ TextLen(Strip(blocks[k].thinking)) = 0
    THEN BlockTexts(blocks, k + 1)
    ELSE <<Truncate(Strip(blocks[k].thinking), AgentMaxLen)>>
             \o BlockTexts(blocks, k + 1)

\* ... and of the lines at or past the cursor, from line k on
RECURSIVE Segments(_, _, _)
Segments(lines, k, cursor) ==
    IF k > Len(lines) THEN <<>>
    ELSE IF k - 1 < cursor \/ lines[k].kind # "entry" \/ lines[k].type # "assistant"
    THEN Segments(lines, k + 1, cursor)
    ELSE BlockTexts(lines[k].blocks, 1) \o Segments(lines, k + 1, cursor)

\* The next statement of the loop: the dedup query of the next segment, or
\* the cursor upsert after the last one
AfterSegment(todo) == IF Len(todo) > 0 THEN "dedup" ELSE "upsert"

Step(p, c) ==
    /\ conns' = [conns EXCEPT ![p] = c]
    /\ UNCHANGED <<db, transcript, now, last, scope>>

\* The invocation ends with an exception: main closes the connection
Abort(p) ==
    Step(p, [conns[p] EXCEPT !.pc = "done", !.outcome = "aborted",
                             !.view = IF @ = Null THEN Null
                                      ELSE Some(CloseUncommitted(db, Val(@)))])

\* ensure_session: SELECT id FROM sessions
SelectSession(p) ==
    /\ conns[p].pc = "start"
    /\ Step(p, [conns[p] EXCEPT !.pc =
                   IF Read(p).sessions[OverlapSession] = Null THEN "ensure"
                   ELSE IF transcript[OverlapSession].state = "missing" THEN "latest"
                   ELSE "cursor"])

\* ensure_session: INSERT INTO sessions; the primary key rejects a row that
\* the other connection committed after this one's SELECT
InsertSession(p) ==
    /\ conns[p].pc = "ensure"
    /\ LockFree(p)
    /\ IF Read(p).sessions[OverlapSession] # Null
       THEN Abort(p)
       ELSE Step(p, [conns[p] EXCEPT
                        !.view = Some(ensure_session(Read(p), OverlapSession,
                                                     CwdNmem, now)),
                        !.pc = IF transcript[OverlapSession].state = "missing"
                               THEN "latest" ELSE "cursor"])

\* scan_transcript: SELECT line_number FROM _cursor
SelectCursor(p) ==
    /\ conns[p].pc = "cursor"
    /\ Step(p, [conns[p] EXCEPT
                   !.cursor = IF Read(p).cursor[OverlapSession] = Null THEN 0
                              ELSE Val(Read(p).cursor[OverlapSession]),
                   !.pc = "latest"])

\* scan_transcript: get_current_prompt_id, then the file is opened
SelectLatest(p) ==
    /\ conns[p].pc = "latest"
    /\ \E todo \in {IF transcript[OverlapSession].state = "file"
                    THEN Segments(transcript[OverlapSession].lines, 1, conns[p].cursor)
                    ELSE <<>>} :
           Step(p, [conns[p] EXCEPT
                       !.latest = get_current_prompt_id(Read(p), OverlapSession),
                       !.todo = todo,
                       !.raised = transcript[OverlapSession].state = "unreadable",
                       !.pc = IF transcript[OverlapSession].state = "missing"
                              THEN "observe" ELSE AfterSegment(todo)])

\* scan_transcript: the dedup query for the next segment
SelectExisting(p) ==
    /\ conns[p].pc = "dedup"
    /\ \E existing \in {ExistingAgentPrompt(Read(p), OverlapSession,
                                            Head(conns[p].todo))} :
           IF existing # Null
           THEN Step(p, [conns[p] EXCEPT !.latest = existing, !.todo = Tail(@),
                                         !.pc = AfterSegment(Tail(conns[p].todo))])
           ELSE Step(p, [conns[p] EXCEPT !.pc = "insert"])

\* scan_transcript: INSERT INTO prompts for a segment the query did not find
InsertAgentPrompt(p) ==
    /\ conns[p].pc = "insert"
    /\ LockFree(p)
    /\ \E ins \in {InsertPrompt(Read(p), OverlapSession, "agent",
                                Head(conns[p].todo))} :
           IF ins.raised
           THEN Step(p, [conns[p] EXCEPT !.raised = TRUE, !.pc = "upsert"])
           ELSE Step(p, [conns[p] EXCEPT !.view = Some(ins.db),
                                         !.latest = ins.lastrowid,
                                         !.todo = Tail(@),
                                         !.pc = AfterSegment(Tail(conns[p].todo))])

\* scan_transcript: INSERT OR REPLACE INTO _cursor
UpsertCursor(p) ==
    /\ conns[p].pc = "upsert"
    /\ LockFree(p)
    /\ Step(p, [conns[p] EXCEPT
                   !.view = Some([Read(p) EXCEPT !.cursor[OverlapSession] =
                                Some(NewCursor(conns[p].raised,
                                               Len(transcript[OverlapSession].lines),
                                               conns[p].cursor))]),
                   !.pc = "observe"])

\* handle_post_tool_use: INSERT INTO observations
InsertObs(p) ==
    /\ conns[p].pc = "observe"
    /\ LockFree(p)
    /\ \E ins \in {InsertObservation(Read(p),
                      [session_id |-> OverlapSession,
                       prompt_id |-> conns[p].latest,
                       obs_type |-> classify_tool(ToolBashLs.tool_name),
                       source_event |-> "PostToolUse",
                       tool_name |-> Some(ToolBashLs.tool_name),
                       file_path |-> extract_file_path(ToolBashLs.tool_name,
                                                       ToolBashLs.tool_input),
                       content |-> extract_content(ToolBashLs.tool_name,
                                                   ToolBashLs.tool_input).value])} :
           IF ins.raised THEN Abort(p)
           ELSE Step(p, [conns[p] EXCEPT !.view = Some(ins.db), !.pc = "commit"])

\* handle_post_tool_use: conn.commit()
CommitConn(p) ==
    /\ conns[p].pc = "commit"
    /\ db' = Commit(db, Val(conns[p].view))
    /\ conns' = [conns EXCEPT ![p] = [@ EXCEPT !.view = Null, !.pc = "done",
                                               !.outcome = "committed"]]
    /\ UNCHANGED <<transcript, now, last, scope>>

\* A statement that writes times out waiting for the lock: inside the scan's
\* try block the exception is swallowed, elsewhere it ends the invocation
BusyTimeout(p) ==
    /\ conns[p].pc \in {"ensure", "insert", "upsert", "observe"}
    /\ ~LockFree(p)
    /\ IF conns[p].pc = "insert"
       THEN Step(p, [conns[p] EXCEPT !.raised = TRUE, !.pc = "upsert"])
       ELSE Abort(p)

\* The transcripts the two invocations may find
OverlapFiles ==
    {File(ls) : ls \in UNION {[1..n -> {LineUser, LineA, LineB}] : n \in 1..MaxLines}}

InitOverlap ==
    /\ scope = "overlap"
    /\ db \in {EmptyDb, ensure_session(EmptyDb, OverlapSession, CwdNmem, 1)}
    /\ transcript \in {[s \in SessionIds |->
                           IF s = OverlapSession THEN f ELSE MissingFile] :
                       f \in OverlapFiles}
    /\ now = 1
    /\ last = Env("Init", "")
    /\ conns = [p \in Procs |-> NewConn]

NextOverlap ==
    \E p \in Procs :
        \/ SelectSession(p)
        \/ InsertSession(p)
        \/ SelectCursor(p)
        \/ SelectLatest(p)
        \/ SelectExisting(p)
        \/ InsertAgentPrompt(p)
        \/ UpsertCursor(p)
        \/ InsertObs(p)
        \/ CommitConn(p)
        \/ BusyTimeout(p)

SpecOverlap == InitOverlap /\ [][NextOverlap]_vars

(***************************************************************************)
(* The classifier functions on their own: a tool name and a tool_input are *)
(* drawn, then classify_tool, extract_content and extract_file_path are    *)
(* each applied to them once; last holds the arguments and the results     *)
(* (Null until computed).                                                  *)
(***************************************************************************)
sMcp == <<"m", "c", "p", "_", "_", "x">>
sFoo == <<"F", "o", "o">>
sLowerBash == <<"b", "a", "s", "h">>
ToolNames ==
    {sBash, sRead, sWrite, sEdit, sGrep, sGlob, sTask, sWebFetch, sWebSearch,
     sAskUserQuestion, sMcp, sFoo, sLowerBash, <<>>}

TextLs == TextOf(<<"l", "s">>)
TextF == TextOf(<<"/", "f">>)
TextD == TextOf(<<"/", "d">>)
TextPat == TextOf(<<"x", "+">>)
NoInput == [k \in {} |-> Null]
ToolInputs ==
    {NoInput,
     [command |-> Some(TextLs)],
     [command |-> Null],
     [file_path |-> Some(TextF)],
     [file_path |-> Null],
     [pattern |-> Some(TextPat), path |-> Some(TextD)],
     [pattern |-> Some(TextPat)],
     [pattern |-> Null, path |-> Some(TextD)],
     [description |-> Some(TextLs), prompt |-> Some(Txt(<<"p">>, TaskMaxLen + 1))],
     [prompt |-> Some(Txt(<<"p">>, TaskMaxLen + 1))],
     [prompt |-> Null],
     [url |-> Some(TextF), query |-> Some(TextPat)],
     [questions |-> <<[question |-> Some(TextPat)]>>],
     [questions |-> <<>>],
     [command |-> Some(TextLs), file_path |-> Some(TextF), path |-> Some(TextD)]}

InitClassify ==
    /\ scope = "classify"
    /\ db = EmptyDb
    /\ transcript = [s \in SessionIds |-> MissingFile]
    /\ now = 1
    /\ conns = NoConns
    /\ \E name \in ToolNames, tool_input \in ToolInputs :
           last = [event |-> "classify", name |-> name, tool_input |-> tool_input,
                   obs_type |-> Null, content |-> Null, file_path |-> Null,
                   capture |-> Null]

ClassifyTool ==
    /\ last.obs_type = Null
    /\ last' = [last EXCEPT !.obs_type = Some(classify_tool(last.name))]
    /\ UNCHANGED <<db, transcript, now, scope, conns>>

ExtractContent ==
    /\ last.content = Null
    /\ last' = [last EXCEPT !.content = Some(extract_content(last.name, last.tool_input))]
    /\ UNCHANGED <<db, transcript, now, scope, conns>>

ExtractFilePath ==
    /\ last.file_path = Null
    /\ last' = [last EXCEPT
                   !.file_path = Some(extract_file_path(last.name, last.tool_input))]
    /\ UNCHANGED <<db, transcript, now, scope, conns>>

\* The capture hook on the same payload (which has no tool_response): its
\* content, file_path and obs_type, computed in that order
Capture ==
    /\ last.capture = Null
    /\ last' = [last EXCEPT !.capture = Some(
                   [content |-> capture_extract_content(sPostToolUse, last.name,
                                                        last.tool_input),
                    file_path |-> capture_extract_file_path(last.name, last.tool_input),
                    obs_type |-> classify_obs_type(sPostToolUse, last.name, Null)])]
    /\ UNCHANGED <<db, transcript, now, scope, conns>>

NextClassify == ClassifyTool \/ ExtractContent \/ ExtractFilePath \/ Capture

SpecClassify == InitClassify /\ [][NextClassify]_vars

(***************************************************************************)
(* Properties.                                                             *)
(***************************************************************************)
ScanEvents == {"PostToolUse", "Stop"}

\* The last step was a committed invocation of one of events for session s
Handled(events, s) ==
    last.event \in events /\ last.session_id = s /\ last.outcome = "committed"

AgentRows(s) ==
    {k \in 1..Len(db.prompts) :
        db.prompts[k].session_id = s /\ db.prompts[k].source = "agent"}

\* C1: the prompts table never holds two rows with source 'agent', the same
\* session and the same content; and after a handled PostToolUse or Stop,
\* reading again the region its scan read (the same file from the cursor the
\* scan started from) inserts no Prompt row.
C1_AgentPromptsUnique ==
    /\ \A s \in SessionIds : \A i \in AgentRows(s) : \A j \in AgentRows(s) :
           db.prompts[i].content = db.prompts[j].content => i = j
    /\ \A s \in SessionIds :
           (Handled(ScanEvents, s) /\ last.scan.ran)
           => ScanFrom([db |-> db, latest |-> Null, raised |-> FALSE,
                        parsed |-> 0, hits |-> 0, texts |-> {}],
                       s, transcript[s], last.scan.cursor).db.prompts = db.prompts

\* C1 witness: a handled scan met a reasoning text that was already stored
C1_Witness ==
    \E s \in SessionIds :
        /\ Handled(ScanEvents, s)
        /\ last.scan.hits > 0
        /\ AgentRows(s) # {}

\* C2: an invocation that fails after some of its writes, or is killed before
\* its commit, leaves the four tables as they were before the event.
C2_FailedEventLeavesNoWrite ==
    [][last'.outcome = "aborted" => db' = db]_vars

\* C2 witness: a handler failed after it had written rows
C2_Witness ==
    /\ last.outcome = "aborted"
    /\ last.wrote
    /\ last.event = "PostToolUse"

\* C3: the stored cursor of a session never decreases.
C3_CursorNeverDecreases ==
    [][\A s \in SessionIds :
          db.cursor[s] # Null
          => db'.cursor[s] # Null /\ Val(db'.cursor[s]) >= Val(db.cursor[s])]_vars

\* C4: after a handled scan that read a transcript of N >= 1 lines without
\* error the stored cursor is N, and a scan of the unchanged transcript that
\* follows reads no line and inserts nothing.
C4_CursorIsLineCount ==
    \A s \in SessionIds :
        (/\ Handled(ScanEvents, s)
         /\ last.scan.ran
         /\ ~last.scan.raised
         /\ Len(transcript[s].lines) >= 1)
        => /\ db.cursor[s] = Some(Len(transcript[s].lines))
           /\ ScanLoop(db, s, transcript[s]).parsed = 0
           /\ ScanLoop(db, s, transcript[s]).db = db

\* C4 witness: such a scan found no reasoning segment at all
C4_Witness ==
    \E s \in SessionIds :
        /\ Handled(ScanEvents, s)
        /\ last.scan.ran
        /\ ~last.scan.raised
        /\ last.scan.parsed >= 1
        /\ Len(transcript[s].lines) >= 1
        /\ db.prompts = <<>>

\* C5: every Prompt row and every Observation row belongs to a session that
\* has a Session row.
C5_RowsHaveSession ==
    /\ \A k \in 1..Len(db.prompts) :
           db.sessions[db.prompts[k].session_id] # Null
    /\ \A k \in 1..Len(db.observations) :
           db.sessions[db.observations[k].session_id] # Null

\* C5 witness: a Stop was handled for a session id without a Session row,
\* its transcript holding an unread reasoning segment
C5_Witness ==
    \E s \in SessionIds :
        /\ Handled({"Stop"}, s)
        /\ db.sessions[s] = Null
        /\ last.scan.raised
        /\ transcript[s] = File(<<LineA>>)

\* C6: an Observation's prompt_id, when not null, is the id of an existing
\* Prompt of the Observation's own session.
C6_PromptOfSameSession ==
    \A k \in 1..Len(db.observations) :
        db.observations[k].prompt_id # Null
        => /\ Val(db.observations[k].prompt_id) \in 1..Len(db.prompts)
           /\ db.prompts[Val(db.observations[k].prompt_id)].session_id
                  = db.observations[k].session_id

\* C6 witness: an Observation is linked to a Prompt while the most recent
\* Prompt of the store belongs to another session
C6_Witness ==
    \E k \in 1..Len(db.observations) :
        /\ db.observations[k].prompt_id # Null
        /\ Val(db.observations[k].prompt_id) < Len(db.prompts)
        /\ db.prompts[Len(db.prompts)].session_id # db.observations[k].session_id

LatestPromptOf(s) ==
    IF \E k \in 1..Len(db.prompts) : db.prompts[k].session_id = s
    THEN Some(CHOOSE k \in 1..Len(db.prompts) :
                 /\ db.prompts[k].session_id = s
                 /\ \A j \in 1..Len(db.prompts) :
                        db.prompts[j].session_id = s => j <= k)
    ELSE Null

\* C7: the Observation a PostToolUse records carries the id of the most
\* recently inserted Prompt of its session (null if there is none).
C7_ObservationLinksLatestPrompt ==
    \A s \in SessionIds :
        Handled({"PostToolUse"}, s)
        => db.observations[Len(db.observations)].prompt_id = LatestPromptOf(s)

\* C8: once set, a session's ended_at is never changed.
C8_EndedAtWrittenOnce ==
    [][\A s \in SessionIds :
          (db.sessions[s] # Null /\ Val(db.sessions[s]).ended_at # Null)
          => /\ db'.sessions[s] # Null
             /\ Val(db'.sessions[s]).ended_at = Val(db.sessions[s]).ended_at]_vars

\* C9: once a session's ended_at is non-null it stays non-null under every
\* later event.
C9_EndedStaysEnded ==
    [][\A s \in SessionIds :
          (db.sessions[s] # Null /\ Val(db.sessions[s]).ended_at # Null)
          => /\ db'.sessions[s] # Null
             /\ Val(db'.sessions[s]).ended_at # Null]_vars

\* C9 witness: a SessionStart that resumes an ended session was handled and
\* recorded its Observation
C9_Witness ==
    \E s \in SessionIds :
        /\ Handled({"SessionStart"}, s)
        /\ Val(db.sessions[s]).ended_at # Null
        /\ Len(db.observations) > 0
        /\ db.observations[Len(db.observations)].source_event = "SessionStart"

TypesOf(s) ==
    {db.observations[k].obs_type :
        k \in {i \in 1..Len(db.observations) : db.observations[i].session_id = s}}

CountOf(s, t) ==
    Cardinality({k \in 1..Len(db.observations) :
                    db.observations[k].session_id = s
                    /\ db.observations[k].obs_type = t})

\* rows is the histogram of session s: one pair per obs_type of the session,
\* each with the number of its observations, in non-increasing order of count
IsHistogram(rows, s) ==
    /\ \A k \in 1..Len(rows) :
           rows[k][1] \in TypesOf(s) /\ rows[k][2] = CountOf(s, rows[k][1])
    /\ \A t \in TypesOf(s) : \E k \in 1..Len(rows) : rows[k][1] = t
    /\ \A i \in 1..Len(rows) : \A j \in 1..Len(rows) :
           /\ rows[i][1] = rows[j][1] => i = j
           /\ i < j => rows[i][2] >= rows[j][2]

\* C10 as stated: a Stop for an existing session sets its signature to the
\* histogram list of the session's Observations.
C10_StopSetsHistogram ==
    \A s \in SessionIds :
        (Handled({"Stop"}, s) /\ db.sessions[s] # Null)
        => /\ Val(db.sessions[s]).signature # Null
           /\ IsHistogram(Val(Val(db.sessions[s]).signature), s)

\* C10 amended: a Stop for an existing session that has at least one
\* Observation sets its signature to the histogram list of the session's
\* Observations; for a session without Observations it sets it to null.
C10_StopSetsHistogramOrNull ==
    \A s \in SessionIds :
        (Handled({"Stop"}, s) /\ db.sessions[s] # Null)
        => IF TypesOf(s) = {}
           THEN Val(db.sessions[s]).signature = Null
           ELSE /\ Val(db.sessions[s]).signature # Null
                /\ IsHistogram(Val(Val(db.sessions[s]).signature), s)

\* C10 witness: Stop after observations file_read, file_read, command
C10_Witness ==
    \E s \in SessionIds :
        /\ Handled({"Stop"}, s)
        /\ db.sessions[s] # Null
        /\ Val(db.sessions[s]).signature = Some(<<<<tFileRead, 2>>, <<tCommand, 1>>>>)

\* C11: when Stop is handled again for a session that was already ended and
\* has Observations, the stored signature is the histogram of the session's
\* Observations as they are at this latest Stop.
C11_SignatureRecomputedOnEveryStop ==
    \A s \in SessionIds :
        (/\ Handled({"Stop"}, s)
         /\ last.before.session # Null
         /\ Val(last.before.session).ended_at # Null
         /\ TypesOf(s) # {})
        => /\ Val(db.sessions[s]).signature # Null
           /\ IsHistogram(Val(Val(db.sessions[s]).signature), s)

\* C11 witness: a later Stop replaced the signature an earlier Stop had stored
C11_Witness ==
    \E s \in SessionIds :
        /\ Handled({"Stop"}, s)
        /\ last.before.session # Null
        /\ Val(last.before.session).ended_at # Null
        /\ Val(last.before.session).signature # Null
        /\ Val(db.sessions[s]).signature # Null
        /\ Val(db.sessions[s]).signature # Val(last.before.session).signature

\* C12: when two invocations for the same session overlap and scan the same
\* transcript region, then after both have ended the store holds at most one
\* agent Prompt row per reasoning text of the session, whatever the
\* interleaving of their statements.
C12_OverlapKeepsAgentPromptsUnique ==
    (\A p \in Procs : conns[p].pc = "done")
    => \A s \in SessionIds : \A i \in AgentRows(s) : \A j \in AgentRows(s) :
           db.prompts[i].content = db.prompts[j].content => i = j

LastObs == db.observations[Len(db.observations)]

\* C13: a handled PostToolUse adds exactly one Observation row, with the
\* event's session, source_event PostToolUse and the classifier's obs_type,
\* content and file_path (Bash with command "ls -la": command, "ls -la",
\* null; Read with file_path "/f": file_read, "/f", "/f"); its prompt_id is
\* null when the session has no Prompt and the scan met no reasoning.
C13_PostToolUseAddsOneObservation ==
    \A s \in SessionIds :
        Handled({"PostToolUse"}, s)
        => /\ Len(db.observations) = last.before.observations + 1
           /\ LastObs.session_id = s
           /\ LastObs.source_event = "PostToolUse"
           /\ LastObs.tool_name = Some(last.input.tool.tool_name)
           /\ (last.input.tool.tool_name = sBash
               => /\ LastObs.obs_type = tCommand
                  /\ LastObs.content = Some(TextOf(<<"l", "s", " ", "-", "l", "a">>))
                  /\ LastObs.file_path = Null)
           /\ (last.input.tool.tool_name = sRead
               => /\ LastObs.obs_type = tFileRead
                  /\ LastObs.content = Some(TextOf(<<"/", "f">>))
                  /\ LastObs.file_path = Some(TextOf(<<"/", "f">>)))
           /\ ((last.scan.texts = {} /\ PromptIdsOf(db, s) = {})
               => LastObs.prompt_id = Null)

\* C13 witness: a handled PostToolUse for Bash whose scan read transcript
\* lines without reasoning, in a session without Prompts
C13_Witness ==
    \E s \in SessionIds :
        /\ Handled({"PostToolUse"}, s)
        /\ last.input.tool = ToolBashLs
        /\ last.scan.parsed >= 1
        /\ last.scan.texts = {}
        /\ PromptIdsOf(db, s) = {}
        /\ LastObs.prompt_id = Null

\* The last step was a handled PostToolUse for s, the invocation before it
\* was a handled PostToolUse for s too, and both scans met one and the same
\* reasoning text and no other
SameReasoningTwice(s) ==
    /\ Handled({"PostToolUse"}, s)
    /\ last.prior.event = "PostToolUse"
    /\ last.prior.session_id = s
    /\ last.prior.outcome = "committed"
    /\ Cardinality(last.scan.texts) = 1
    /\ last.prior.texts = last.scan.texts

C15_SessionStartMarkerHasNoPrompt ==
    \A s \in SessionIds :
        (Handled({"SessionStart"}, s) /\ last.input.source \in ResumeSources)
        => /\ Len(db.observations) = last.before.observations + 1
           /\ LastObs.session_id = s
           /\ LastObs.obs_type = tSessionPrefix \o SourceType(last.input.source)
           /\ LastObs.source_event = "SessionStart"
           /\ LastObs.prompt_id = Null

\* C16: after a UserPromptSubmit for a session id has been handled (its
\* prompt stored or discarded), a Session row for that id exists.
C16_UserPromptEnsuresSession ==
    \A s \in SessionIds :
        (/\ last.event = "UserPromptSubmit"
         /\ last.session_id = s
         /\ last.outcome \in {"committed", "returned"})
        => db.sessions[s] # Null

\* C17: a UserPromptSubmit whose prompt is empty (or absent) or begins with
\* the system-reminder marker returns without error, inserts no Prompt row
\* and leaves the session's current prompt as it was.
C17_DiscardedPromptChangesNothing ==
    [][(/\ last'.event = "UserPromptSubmit"
        /\ last'.input.prompt \in {EmptyText, PromptReminder})
       => /\ last'.outcome = "returned"
          /\ db'.prompts = db.prompts
          /\ get_current_prompt_id(db', last'.session_id)
                 = get_current_prompt_id(db, last'.session_id)]_vars

\* C17 witness: a reminder prompt was discarded in a session that has a
\* current prompt
C17_Witness ==
    /\ last.event = "UserPromptSubmit"
    /\ last.outcome = "returned"
    /\ last.input.prompt = PromptReminder
    /\ get_current_prompt_id(db, last.session_id) # Null

\* The last step was a handled SessionStart with source startup for a
\* session id that had no Session row
FreshStartup(s) ==
    /\ Handled({"SessionStart"}, s)
    /\ last.input.source = "startup"
    /\ last.before.session = Null

\* C18: a SessionStart with source startup for a session id without a
\* Session row creates the row with ended_at null and signature null and
\* inserts no Prompt and no Observation.
C18_StartupCreatesSessionOnly ==
    \A s \in SessionIds :
        FreshStartup(s)
        => /\ db.sessions[s] # Null
           /\ Val(db.sessions[s]).ended_at = Null
           /\ Val(db.sessions[s]).signature = Null
           /\ Val(db.sessions[s]).started_at = now
           /\ Len(db.prompts) = last.before.prompts
           /\ Len(db.observations) = last.before.observations

\* C18 witness: such a start while another session has rows in the store
C18_Witness ==
    \E s \in SessionIds :
        /\ FreshStartup(s)
        /\ Len(db.prompts) > 0
        /\ Len(db.observations) > 0

\* C19: once a Session row exists no event changes its started_at or its
\* project, and the row stays.
C19_SessionRowIsStable ==
    [][\A s \in SessionIds :
          db.sessions[s] # Null
          => /\ db'.sessions[s] # Null
             /\ Val(db'.sessions[s]).started_at = Val(db.sessions[s]).started_at
             /\ Val(db'.sessions[s]).project = Val(db.sessions[s]).project]_vars

\* C19 witness: an event with another working directory was handled, later
\* than the session's start, for a session that had its row
C19_Witness ==
    \E s \in SessionIds :
        /\ Handled({"SessionStart", "UserPromptSubmit", "PostToolUse"}, s)
        /\ last.before.session # Null
        /\ last.input.cwd = CwdTmp
        /\ Val(db.sessions[s]).project = "nmem"
        /\ Val(db.sessions[s]).started_at < now

\* The cursor a scan of session s starts from
CursorValue(s) == IF db.cursor[s] = Null THEN 0 ELSE Val(db.cursor[s])

\* C20: a PostToolUse handled while the transcript is missing or unreadable
\* records its Observation, inserts no Prompt row, leaves the session's
\* cursor value as it was and links the Observation to the most recent
\* Prompt of the session (null if none).
C20_DegradedTranscriptStillRecords ==
    \A s \in SessionIds :
        (/\ Handled({"PostToolUse"}, s)
         /\ transcript[s].state \in {"missing", "unreadable"})
        => /\ Len(db.observations) = last.before.observations + 1
           /\ LastObs.source_event = "PostToolUse"
           /\ Len(db.prompts) = last.before.prompts
           /\ CursorValue(s) = last.scan.cursor
           /\ LastObs.prompt_id = LatestPromptOf(s)

\* C20 witness: the transcript became unreadable after a scan had read it
\* and stored its reasoning
C20_Witness ==
    \E s \in SessionIds :
        /\ Handled({"PostToolUse"}, s)
        /\ transcript[s].state = "unreadable"
        /\ last.scan.raised
        /\ last.scan.cursor >= 1
        /\ LastObs.prompt_id # Null

\* The reasoning texts of the well-formed lines at or past cursor are stored
\* as agent Prompts of session s
SegmentsStored(s, cursor) ==
    \A k \in 1..Len(Segments(transcript[s].lines, 1, cursor)) :
        \E r \in AgentRows(s) :
            db.prompts[r].content = Segments(transcript[s].lines, 1, cursor)[k]

\* C21: a malformed transcript line (no JSON, or JSON that is no object) is
\* skipped: a handled scan of a readable transcript of N >= 1 lines for an
\* existing session stores the reasoning of every well-formed line at or
\* past the cursor it started from and sets the cursor to N.
C21_MalformedLineIsSkipped ==
    \A s \in SessionIds :
        (/\ Handled(ScanEvents, s)
         /\ db.sessions[s] # Null
         /\ transcript[s].state = "file"
         /\ Len(transcript[s].lines) >= 1)
        => /\ SegmentsStored(s, last.scan.cursor)
           /\ db.cursor[s] = Some(Len(transcript[s].lines))

\* C22: classify_tool maps every tool name to a non-empty obs_type: the
\* eight fixed names to their fixed types, any other name holding "__" to
\* mcp_call, and every remaining name (the empty one too) to "tool_"
\* followed by the name in lower case.
C22_ClassifyToolIsTotal ==
    last.obs_type # Null =>
        /\ Len(Val(last.obs_type)) > 0
        /\ last.name = sBash => Val(last.obs_type) = <<"c","o","m","m","a","n","d">>
        /\ last.name = sRead => Val(last.obs_type) = <<"f","i","l","e","_","r","e","a","d">>
        /\ last.name = sWrite => Val(last.obs_type) = <<"f","i","l","e","_","w","r","i","t","e">>
        /\ last.name = sEdit => Val(last.obs_type) = <<"f","i","l","e","_","e","d","i","t">>
        /\ last.name = sGrep => Val(last.obs_type) = <<"s","e","a","r","c","h">>
        /\ last.name = sGlob => Val(last.obs_type) = <<"s","e","a","r","c","h">>
        /\ last.name = sTask => Val(last.obs_type) = <<"t","a","s","k","_","s","p","a","w","n">>
        /\ last.name = sWebFetch => Val(last.obs_type) = <<"w","e","b","_","f","e","t","c","h">>
        /\ last.name = sWebSearch
               => Val(last.obs_type) = <<"w","e","b","_","s","e","a","r","c","h">>
        /\ last.name = sMcp => Val(last.obs_type) = <<"m","c","p","_","c","a","l","l">>
        /\ last.name = sAskUserQuestion
               => Val(last.obs_type) = <<"t","o","o","l","_","a","s","k","u","s","e","r",
                                         "q","u","e","s","t","i","o","n">>
        /\ last.name = sFoo => Val(last.obs_type) = <<"t","o","o","l","_","f","o","o">>
        /\ last.name = sLowerBash
               => Val(last.obs_type) = <<"t","o","o","l","_","b","a","s","h">>
        /\ last.name = <<>> => Val(last.obs_type) = <<"t","o","o","l","_">>

C22_Witness ==
    /\ last.event = "classify"
    /\ last.name = sFoo
    /\ last.obs_type = Some(<<"t","o","o","l","_","f","o","o">>)

\* C23: a committed PostToolUse for Bash stores its Observation with
\* obs_type command_error when the tool response text holds an error or
\* exit-code marker, and with obs_type command otherwise.
C23_BashErrorIsCommandError ==
    \A s \in SessionIds :
        (Handled({"PostToolUse"}, s) /\ last.input.tool.tool_name = sBash)
        => LastObs.obs_type =
               IF HasErrorMarker(Get(last.input.tool, "tool_response", Null))
               THEN tCommandError ELSE tCommand

\* C24: extract_content is total: for every tool name and every tool_input
\* it returns a string and raises nothing.
C24_ExtractContentIsTotal ==
    last.content # Null =>
        /\ ~Val(last.content).raised
        /\ Val(last.content).value # Null

\* C25: extract_file_path returns the input's file_path for Read, Write and
\* Edit, the input's path for Grep and Glob, and nothing for every other
\* tool, whatever its input holds.
C25_FilePathOnlyForFileTools ==
    last.file_path # Null =>
        Val(last.file_path) =
            IF last.name \in {sRead, sWrite, sEdit}
            THEN (IF "file_path" \in DOMAIN last.tool_input
                  THEN last.tool_input["file_path"] ELSE Null)
            ELSE IF last.name \in {sGrep, sGlob}
            THEN (IF "path" \in DOMAIN last.tool_input
                  THEN last.tool_input["path"] ELSE Null)
            ELSE Null

C25_Witness ==
    /\ last.event = "classify"
    /\ last.name = sBash
    /\ "file_path" \in DOMAIN last.tool_input
    /\ last.tool_input["file_path"] # Null
    /\ last.file_path = Some(Null)

\* C26: no stored Prompt, of source user or agent, has content that is or
\* begins with the system-reminder marker.
C26_NoPromptStartsWithMarker ==
    \A k \in 1..Len(db.prompts) :
        ~(/\ db.prompts[k].content.pre = 0
          /\ db.prompts[k].content.len >= Len(Marker)
          /\ Len(db.prompts[k].content.stem) >= Len(Marker)
          /\ SubSeq(db.prompts[k].content.stem, 1, Len(Marker)) = Marker)

\* c is the first TextLen(c) characters of t
IsPrefix(c, t) ==
    /\ TextLen(c) <= TextLen(t)
    /\ c.pre = Min(t.pre, TextLen(c))
    /\ c.len = Min(t.len, TextLen(c) - c.pre)
    /\ c.len > 0 => c.stem = t.stem

\* The stripped reasoning texts of the assistant lines of session s's
\* transcript past index cursor
ReasoningPast(s, cursor) ==
    {[pre |-> 0, stem |-> b.thinking.stem, len |-> b.thinking.len, post |-> 0] :
        b \in {c \in UNION {{transcript[s].lines[k].blocks[j] :
                                j \in 1..Len(transcript[s].lines[k].blocks)} :
                            k \in {i \in (cursor + 1)..Len(transcript[s].lines) :
                                      /\ transcript[s].lines[i].kind = "entry"
                                      /\ transcript[s].lines[i].type = "assistant"}} :
                  c.type = "thinking" /\ c.thinking.len > 0}}

C28_MalformedInvocationIsDiscarded ==
    [][last'.event = "Discarded" => (db' = db /\ last'.exit = "normal")]_vars

C28_Witness ==
    /\ last.event = "Discarded"
    /\ last.input = Payload("object", Some("s1"), "PreToolUse")
    /\ last.outcome = "returned"
    /\ db.sessions["s1"] = Null
    /\ transcript["s1"].state = "file"

\* C29: an invocation that fails with an exception reports it to the error
\* sink and still ends normally; when the sink fails too, the store is as it
\* was before the invocation and the invocation still ends normally.
C29_FailureIsContained ==
    [][(last'.outcome = "aborted" /\ last'.exit # "killed")
       => /\ last'.report \in {"sent", "lost"}
          /\ last'.exit = "normal"
          /\ db' = db]_vars

C29_Witness ==
    /\ last.event = "PostToolUse"
    /\ last.outcome = "aborted"
    /\ last.wrote
    /\ last.report = "lost"
    /\ last.exit = "normal"

\* C30: in the committed store the prompts index holds exactly one entry,
\* with the row's id and content, for each Prompt row and none else, and
\* the observations index likewise for the Observation rows.
C30_IndexMatchesRows ==
    /\ db.prompts_fts =
           [k \in 1..Len(db.prompts) |->
               [rowid |-> k, content |-> db.prompts[k].content]]
    /\ db.observations_fts =
           [k \in 1..Len(db.observations) |->
               [rowid |-> k, content |-> Val(db.observations[k].content)]]

\* C31: Prompt and Observation rows are append-only: every step keeps each
\* existing Prompt row and each existing Observation row, under its id, with
\* the same field values.
C31_RowsAreAppendOnly ==
    [][/\ Len(db'.prompts) >= Len(db.prompts)
       /\ \A k \in 1..Len(db.prompts) : db'.prompts[k] = db.prompts[k]
       /\ Len(db'.observations) >= Len(db.observations)
       /\ \A k \in 1..Len(db.observations) :
              db'.observations[k] = db.observations[k]]_vars

C31_Witness ==
    /\ Handled({"PostToolUse"}, "s1")
    /\ last.before.observations >= 1
    /\ last.before.prompts >= 1
    /\ Len(db.observations) = last.before.observations + 1
    /\ db.observations[1].tool_name # LastObs.tool_name

\* C32: every session has at most one cursor row (the store keeps one slot
\* per session id), and a cursor row exists only for a session that has a
\* Session row.
C32_CursorBelongsToSession ==
    \A s \in SessionIds :
        /\ Len(db.cursor[s]) <= 1
        /\ db.cursor[s] # Null => db.sessions[s] # Null

\* C33: when a committed PostToolUse is followed at once by a committed
\* PostToolUse with the same payload for the same session, the second one
\* adds one Observation equal to the first one's in session, tool name,
\* obs_type, content, file_path and prompt_id, and adds no Prompt row.
C33_ReplayDuplicatesObservationOnly ==
    [][(/\ last.event = "PostToolUse" /\ last.outcome = "committed"
        /\ last'.event = "PostToolUse" /\ last'.outcome = "committed"
        /\ last'.session_id = last.session_id
        /\ last'.input = last.input
        /\ transcript' = transcript)
       => /\ Len(db'.prompts) = Len(db.prompts)
          /\ Len(db'.observations) = Len(db.observations) + 1
          /\ db'.observations[Len(db'.observations)]
                 = db.observations[Len(db.observations)]]_vars

\* The last invocation was a committed UserPromptSubmit for session s that
\* stored a Prompt (the transcript may have changed since)
UserPromptAccepted(s) ==
    \/ /\ last.event = "UserPromptSubmit" /\ last.outcome = "committed"
       /\ last.session_id = s
       /\ Len(db.prompts) = last.before.prompts + 1
    \/ /\ last.event = "Transcript"
       /\ last.prior.event = "UserPromptSubmit" /\ last.prior.outcome = "committed"
       /\ last.prior.session_id = s

\* C34: when the last invocation was a committed UserPromptSubmit of a
\* session that stored a Prompt, a committed PostToolUse of the session that
\* comes next and whose scan meets no reasoning text stores an Observation
\* whose prompt_id is that user Prompt's id.
C34_ObservationFollowsUserPrompt ==
    [][(/\ UserPromptAccepted(last'.session_id)
        /\ last'.event = "PostToolUse" /\ last'.outcome = "committed"
        /\ last'.scan.texts = {})
       => /\ db.prompts[Len(db.prompts)].source = "user"
          /\ db.prompts[Len(db.prompts)].session_id = last'.session_id
          /\ Len(db'.observations) = Len(db.observations) + 1
          /\ db'.observations[Len(db'.observations)].prompt_id
                 = Some(Len(db.prompts))]_vars

C34_Witness ==
    /\ Handled({"PostToolUse"}, "s1")
    /\ last.scan.ran
    /\ last.scan.texts = {}
    /\ last.before.prompts >= 2
    /\ Len(db.prompts) = last.before.prompts
    /\ db.prompts[1].source = "agent"
    /\ db.prompts[Len(db.prompts)].source = "user"
    /\ LastObs.prompt_id = Some(Len(db.prompts))

\* The rows of session s in a store d: its Session row, its cursor, its
\* Prompts and its Observations under their ids
RowsOf(d, s) ==
    [session |-> d.sessions[s],
     cursor |-> d.cursor[s],
     prompts |-> {<<k, d.prompts[k]>> : k \in PromptIdsOf(d, s)},
     observations |-> {<<k, d.observations[k]>> :
                          k \in {j \in 1..Len(d.observations) :
                                    d.observations[j].session_id = s}}]

\* C35: an invocation for session A leaves the Session row, the cursor, the
\* Prompts and the Observations of every other session B as they were, and
\* the Observation it stores is linked to no Prompt of another session, also
\* when another session holds the same reasoning text.
C35_OtherSessionsUntouched ==
    [][last'.event \in Events
       => /\ \A b \in SessionIds \ {last'.session_id} : RowsOf(db', b) = RowsOf(db, b)
          /\ \A k \in 1..Len(db'.observations) :
                 db'.observations[k].prompt_id # Null
                 => db'.prompts[Val(db'.observations[k].prompt_id)].session_id
                        = db'.observations[k].session_id]_vars

C35_Witness ==
    /\ Handled({"PostToolUse"}, "s2")
    /\ last.scan.texts = {ThinkA}
    /\ db.sessions["s1"] # Null
    /\ \E k \in AgentRows("s1") : db.prompts[k].content = ThinkA
    /\ \E k \in AgentRows("s2") :
           /\ db.prompts[k].content = ThinkA
           /\ LastObs.prompt_id = Some(k)
    /\ Len(db.prompts) = last.before.prompts + 1

\* C36: while the transcript only grows, every reasoning text of an
\* assistant entry on a line below the session's stored cursor is the
\* content of an agent Prompt of the session.
C36_CursorPassesNoReasoning ==
    \A s \in SessionIds :
        (scope = "append" /\ db.cursor[s] # Null /\ transcript[s].state = "file")
        => \A k \in 1..Min(Val(db.cursor[s]), Len(transcript[s].lines)) :
               (/\ transcript[s].lines[k].kind = "entry"
                /\ transcript[s].lines[k].type = "assistant")
               => \A j \in 1..Len(BlockTexts(transcript[s].lines[k].blocks, 1)) :
                      \E r \in AgentRows(s) :
                          db.prompts[r].content
                              = BlockTexts(transcript[s].lines[k].blocks, 1)[j]

\* C37: a Stop for a session without a Session row, when no fault is
\* injected, commits, creates no Session row, changes no Session row,
\* inserts no Prompt and no Observation, leaves the cursor at or before the
\* first line that holds reasoning, and reports no error.
C37_StopForUnknownSession ==
    [][(/\ last'.event = "Stop"
        /\ db.sessions[last'.session_id] = Null
        /\ scope \notin {"clock", "failure"})
       => /\ last'.outcome = "committed"
          /\ last'.report = "none"
          /\ last'.exit = "normal"
          /\ db'.sessions = db.sessions
          /\ db'.prompts = db.prompts
          /\ db'.observations = db.observations
          /\ \A k \in 1..Len(transcript[last'.session_id].lines) :
                 (/\ db'.cursor[last'.session_id] # Null
                  /\ k <= Val(db'.cursor[last'.session_id])
                  /\ k > last'.scan.cursor
                  /\ transcript[last'.session_id].lines[k].kind = "entry"
                  /\ transcript[last'.session_id].lines[k].type = "assistant")
                 => BlockTexts(transcript[last'.session_id].lines[k].blocks, 1) = <<>>]_vars

C37_Witness ==
    /\ Handled({"Stop"}, "s1")
    /\ db.sessions["s1"] = Null
    /\ last.scan.ran /\ last.scan.raised
    /\ last.scan.parsed = 2
    /\ transcript["s1"] = File(<<LineUser, LineA>>)
    /\ db.cursor["s1"] = Some(0)
    /\ Len(db.prompts) = 0

\* C38: for a PostToolUse payload without a tool_response, whatever its tool
\* name and tool_input, the obs_type, content and file_path the capture hook
\* computes equal the ones extract.py computes and stores for that payload.
C38_CaptureMatchesExtract ==
    (/\ last.event = "classify"
     /\ last.capture # Null
     /\ last.obs_type # Null
     /\ last.content # Null
     /\ last.file_path # Null)
    => /\ Val(last.capture).obs_type = Val(last.obs_type)
       /\ Val(last.capture).content = Val(last.content)
       /\ Val(last.capture).file_path = Val(last.file_path)
====
